---- MODULE Spec2Model ----
(***************************************************************************)
(* Tenant-scoped order lifecycle and notification fan-out of the           *)
(* LIVE_MENU backend (api/views.py, api/serializers.py, api/consumers.py,  *)
(* api/models.py).                                                         *)
(*                                                                         *)
(* Request handlers run concurrently.  Every ORM call (a query, a create,  *)
(* a save) and every channel-layer call (group_add, group_discard,         *)
(* group_send) is one atomic step; the code between two such calls works   *)
(* on the handler's own in-memory objects and is folded into the step of   *)
(* the call that follows it.  No handler runs inside a transaction: the    *)
(* settings do not set ATOMIC_REQUESTS and no view uses transaction.atomic.*)
(***************************************************************************)
EXTENDS Integers, Sequences, FiniteSets, TLC

(***************************************************************************)
(* Bounds of the model.                                                    *)
(***************************************************************************)
MaxOrders   == 2   \* orders that are ever placed
RaceOrders  == 1   \* orders that are placed where handlers race
MaxInflight == 2   \* request handlers running at the same time
SerialInflight == 1 \* the same, where requests are served one at a time
MaxConns    == 2   \* websocket channels that are ever opened
MaxEvents   == 2   \* group_send calls that are ever started
MaxFrames   == 1   \* frames a websocket client sends on one connection

(***************************************************************************)
(* Input domains.                                                          *)
(***************************************************************************)
None        == "None"                     \* Python's None
ValidIds    == {"A", "B"}                 \* tenant ids that make a valid group name
InvalidIds  == {"x y"}                    \* a tenant id with a space in it
ClientIds   == ValidIds \cup InvalidIds
Usernames   == {"u1", "u2"}
\* The (client_id, username) pairs orders are placed for: two accounts of tenant A,
\* the same username under tenant B, and an account of the tenant with the space.
Accounts    == {<<"A", "u1">>, <<"A", "u2">>, <<"B", "u1">>, <<"x y", "u1">>}
\* Waiter names are sequences of characters, as the request body carries them.
Rajan       == <<"R">>
Sita        == <<"S">>
Padded      == <<" ", "S", " ">>          \* Sita's name typed with spaces around it
Blank       == <<>>                       \* ""
Spaces      == <<" ">>                    \* a name of whitespace only
NullName    == <<None>>                   \* the NULL of the waiter_name column
Roles       == {"waiter", "kitchen"}
Slots       == 1..MaxInflight
Serial      == 1..SerialInflight
Conns       == 1..MaxConns

\* models.py CompanyInfo: the tenant rows, by client_id.  Tenant B has been switched
\* off (is_active = False); the tenant id with the space has no row.
CompanyInfo == [c \in ValidIds |-> [is_active |-> (c = "A")]]

\* models.py Order.STATUS_CHOICES
STATUS_CHOICES == {"pending", "preparing", "ready", "completed", "cancelled"}

\* One submitted line.  has_keys is FALSE for a dict without 'menu_item_id':
\* items is a ListField of DictField, so is_valid() accepts it.
Tea         == [name |-> "tea", quantity |-> 2, price |-> 100, tax |-> 5, has_keys |-> TRUE]
Bun         == [name |-> "bun", quantity |-> 1, price |-> 30, tax |-> 0, has_keys |-> TRUE]
Bad         == [name |-> "bad", quantity |-> 1, price |-> 30, tax |-> 0, has_keys |-> FALSE]
\* A line with every key that gives a quantity of zero and a negative price and tax.
Zero        == [name |-> "zero", quantity |-> 0, price |-> -10, tax |-> -1, has_keys |-> TRUE]
\* The items lists that are submitted: none, two good lines, a good line and a bad one.
ItemLists   == {<<>>, <<Tea, Bun>>, <<Tea, Bad>>}

VARIABLES
    orders,       \* table orders: orders[id] is the row with primary key id
    order_items,  \* table order_items: order_items[id] is the rows of order id, by insertion
    req,          \* the request handlers in flight, by slot
    conn,         \* the websocket channels
    groups,       \* InMemoryChannelLayer.groups: group name -> channels
    inbox,        \* InMemoryChannelLayer.channels: channel -> queued messages
    received,     \* the frames each consumer has written to its socket
    last_send     \* the latest group_send call that went through, and how many did

vars == <<orders, order_items, req, conn, groups, inbox, received, last_send>>

(***************************************************************************)
(* Helpers on the store.                                                   *)
(***************************************************************************)
OrderIds == 1..Len(orders)

NoRow ==
    [client_id |-> None, username |-> None, status |-> None, waiter_name |-> NullName,
     total_amount |-> 0, created_at |-> 0]

\* Amounts are DecimalFields; the model counts them in hundredths, which is exact for
\* the whole-number prices and tax rates of the lines above.
Decimal(units) == units * 100

\* models.py OrderItem.item_total
item_total(item) == Decimal(item.price) * item.quantity

TaxOnPrice(item) == (Decimal(item.price) * item.tax) \div 100

\* models.py OrderItem.tax_amount
tax_amount(item) == (item_total(item) * item.tax) \div 100

\* models.py OrderItem.item_total_with_tax
item_total_with_tax(item) == item_total(item) + tax_amount(item)

\* The total_amount a request carries: the client adds up its lines with their tax.
RECURSIVE RequestTotal(_)
RequestTotal(items_data) ==
    IF items_data = <<>> THEN 0
    ELSE item_total_with_tax(Head(items_data)) + RequestTotal(Tail(items_data))

\* models.py Order: status defaults to 'pending', waiter_name is nullable, created_at is
\* set when the row is inserted (auto_now_add).  created_at is a logical time: the
\* number of rows inserted up to and including this one.
NewOrderRow(client_id, username, total_amount, created_at) ==
    [client_id |-> client_id, username |-> username,
     status |-> "pending", waiter_name |-> NullName,
     total_amount |-> total_amount, created_at |-> created_at]

\* models.py OrderItem: the stored columns of one line.
ItemRow(item_data) ==
    [name |-> item_data.name, quantity |-> item_data.quantity,
     price |-> item_data.price, tax |-> item_data.tax]

\* str.strip(): leading and trailing whitespace removed.
RECURSIVE LStrip(_)
LStrip(s) == IF s # <<>> /\ Head(s) = " " THEN LStrip(Tail(s)) ELSE s

RECURSIVE RStrip(_)
RStrip(s) == IF s # <<>> /\ s[Len(s)] = " " THEN RStrip(SubSeq(s, 1, Len(s) - 1)) ELSE s

Strip(s) == RStrip(LStrip(s))

\* views.py _build_ws_payload: one item of the payload's items list.
ItemSnapshot(item) ==
    [name |-> item.name, quantity |-> item.quantity, price |-> item.price]

\* views.py _build_ws_payload: the items list, in the order of order.order_items.all().
RECURSIVE ItemSnapshots(_)
ItemSnapshots(items) ==
    IF items = <<>> THEN <<>> ELSE <<ItemSnapshot(Head(items))>> \o ItemSnapshots(Tail(items))

NoPayload ==
    [id |-> 0, client_id |-> None, username |-> None, waiter_name |-> Blank,
     status |-> None, items |-> <<>>]

\* views.py _build_ws_payload(order): order is an instance with its prefetched items.
_build_ws_payload(id, row, items) ==
    [id          |-> id,
     client_id   |-> row.client_id,
     username    |-> row.username,
     waiter_name |-> IF row.waiter_name = NullName THEN Blank ELSE row.waiter_name,
     status      |-> row.status,
     items       |-> ItemSnapshots(items)]

(***************************************************************************)
(* Helpers on the channel layer.                                           *)
(***************************************************************************)
\* f"waiter_{client_id}" / f"kitchen_{client_id}"
GroupName(role, client_id) == role \o "_" \o client_id

GroupNames == {GroupName(role, c) : role \in Roles, c \in ClientIds}

\* channels' valid_group_name: ASCII alphanumerics, hyphen, underscore, period only.
ValidGroupName(group) == group \in {GroupName(role, c) : role \in Roles, c \in ValidIds}

\* settings.py CHANNEL_LAYERS configures the in-memory layer, so get_channel_layer()
\* returns a layer object.
channel_layer == TRUE

\* The message group_send puts on a channel.  eid numbers the group_send calls in
\* call order; it is not part of the wire message.
Message(type, payload, eid) == [type |-> type, order |-> payload, eid |-> eid]

\* channel_layer.group_send(group, message): one copy on the queue of every channel
\* that is in the group when the call is made.
GroupSendTwice(group, msg) ==
    [c \in Conns |-> IF c \in groups[group] THEN inbox[c] \o <<msg, msg>> ELSE inbox[c]]

GroupSendFront(group, msg) ==
    [c \in Conns |-> IF c \in groups[group] THEN <<msg>> \o inbox[c] ELSE inbox[c]]

GroupSend(group, msg) ==
    [c \in Conns |-> IF c \in groups[group] THEN Append(inbox[c], msg) ELSE inbox[c]]

NoSend == [eid |-> 0, group |-> None, type |-> None, order |-> NoPayload, members |-> {}]

(***************************************************************************)
(* Request slots.                                                          *)
(***************************************************************************)
Idle ==
    [op |-> "idle", pc |-> "idle", order_id |-> 0, order |-> NoRow,
     items_data |-> <<>>, order_fresh |-> NoPayload,
     response |-> None, notify |-> None, waiter_name |-> Blank, new_status |-> None,
     query |-> <<>>, out |-> <<>>, viewers |-> {}, submitted |-> 0]

\* The slot of a handler that has returned: what was asked and what was answered.
Done(r, order_id, response, notify) ==
    [Idle EXCEPT !.op = req[r].op, !.pc = "done", !.order_id = order_id,
                 !.response = response, !.notify = notify,
                 !.waiter_name = req[r].waiter_name, !.new_status = req[r].new_status,
                 !.viewers = req[r].viewers, !.submitted = req[r].submitted]

AnswerOk(op, order_id, response) ==
    [Idle EXCEPT !.op = op, !.pc = "done", !.order_id = order_id, !.response = "success"]

\* A handler that returns from its first step.
Answer(op, order_id, response) ==
    [Idle EXCEPT !.op = op, !.pc = "done", !.order_id = order_id, !.response = response]

\* A slot is free before its first request and once its handler has returned; the
\* response of the last request stays readable in it until the next one starts.
\* A new request takes the lowest free slot (slots are interchangeable).
IsFree(r) == req[r].pc \in {"idle", "done"}
FreeSlot(r) == /\ IsFree(r)
               /\ \A q \in Slots : q < r => ~IsFree(q)

\* group_send calls made so far plus those the handlers in flight may still make.
PublishBudget ==
    last_send.eid
    + Cardinality({r \in Slots : req[r].op \in {"create_order", "accept_order"}
                                 /\ req[r].pc \notin {"idle", "done"}})

Init ==
    /\ orders = <<>>
    /\ order_items = <<>>
    /\ req = [r \in Slots |-> Idle]
    /\ conn = [c \in Conns |-> [state |-> "new", role |-> None, client_id |-> None,
                               joined |-> 0, heard |-> 0]]
    /\ groups = [g \in GroupNames |-> {}]
    /\ inbox = [c \in Conns |-> <<>>]
    /\ received = [c \in Conns |-> <<>>]
    /\ last_send = NoSend

(***************************************************************************)
(* create_order (views.py) with OrderCreateSerializer.create.              *)
(***************************************************************************)
\* serializer.is_valid(), then Order.objects.create(**validated_data).
\* client_id = None or username = None stands for a request without that required
\* field.  submitted is history for the properties: the number of lines in the request.
CreateOrderBegin(r, client_id, username, items_data) ==
    /\ FreeSlot(r)
    /\ IF client_id = None \/ username = None
       THEN /\ req' = [req EXCEPT ![r] = Answer("create_order", 0, "ValidationError")]
            /\ UNCHANGED <<orders, order_items>>
       ELSE /\ Len(orders) < MaxOrders
            /\ PublishBudget < MaxEvents
            /\ orders' = Append(orders, NewOrderRow(client_id, username,
                                                    RequestTotal(items_data),
                                                    Len(orders) + 1))
            /\ order_items' = Append(order_items, <<>>)
            /\ req' = [req EXCEPT ![r] =
                         [Idle EXCEPT !.op = "create_order",
                                      !.pc = IF items_data = <<>> THEN "fetch" ELSE "items",
                                      !.order_id = Len(orders) + 1,
                                      !.order = NewOrderRow(client_id, username,
                                                            RequestTotal(items_data),
                                                            Len(orders) + 1),
                                      !.items_data = items_data,
                                      !.submitted = Len(items_data)]]
    /\ UNCHANGED <<conn, groups, inbox, received, last_send>>

\* One pass of the loop: OrderItem.objects.create(order=order, ...).  A dict without
\* a key raises KeyError out of the view; rows written so far stay.
CreateOrderItem(r) ==
    /\ req[r].op = "create_order" /\ req[r].pc = "items"
    /\ LET item_data == Head(req[r].items_data)
           id        == req[r].order_id
       IN  IF ~item_data.has_keys
           THEN /\ req' = [req EXCEPT ![r] = Done(r, id, "ServerError", None)]
                /\ UNCHANGED order_items
           ELSE /\ order_items' = [order_items EXCEPT ![id] = Append(@, ItemRow(item_data))]
                /\ req' = [req EXCEPT ![r].items_data = Tail(@),
                                      ![r].pc = IF Tail(req[r].items_data) = <<>>
                                                THEN "fetch" ELSE "items"]
    /\ UNCHANGED <<orders, conn, groups, inbox, received, last_send>>

(***************************************************************************)
(* The notification block shared by create_order and accept_order.         *)
(***************************************************************************)
EventType(op) == IF op = "create_order" THEN "new_order" ELSE "order_accepted"
EventRole(op) == IF op = "create_order" THEN "waiter" ELSE "kitchen"

TargetGroupOfFirstTenant(op, payload) == GroupName(EventRole(op), "A")

TargetGroupOfKitchen(op, payload) == GroupName("kitchen", payload.client_id)

\* f"waiter_{order_fresh.client_id}" in create_order, f"kitchen_{order_fresh.client_id}"
\* in accept_order.
TargetGroup(op, payload) == GroupName(EventRole(op), payload.client_id)

RespondOrFail(r, notify) ==
    Done(r, req[r].order_id, IF notify = "failed" THEN "ServerError" ELSE "success", notify)

RespondAndResend(r, notify) == [req[r] EXCEPT !.notify = notify]

\* The tail of create_order and accept_order: the view returns its success response
\* whatever became of the notification.
Respond(r, notify) == Done(r, req[r].order_id, "success", notify)

\* order_fresh = Order.objects.prefetch_related('order_items').get(id=order.id),
\* and the payload built from it.
Refetch(r) ==
    /\ req[r].pc = "fetch"
    /\ IF channel_layer
       THEN req' = [req EXCEPT ![r].pc = "send",
                               ![r].order_fresh =
                                   _build_ws_payload(req[r].order_id,
                                                     orders[req[r].order_id],
                                                     order_items[req[r].order_id])]
       ELSE req' = [req EXCEPT ![r] =
                       Respond(r, "skipped")]
    /\ UNCHANGED <<orders, order_items, conn, groups, inbox, received, last_send>>

PublishWaitsForReaders(r) ==
    /\ req[r].pc = "send"
    /\ LET payload == req[r].order_fresh
           group   == TargetGroup(req[r].op, payload)
           eid     == last_send.eid + 1
           msg     == Message(EventType(req[r].op), payload, eid)
       IN  IF ValidGroupName(group)
           THEN /\ \A c \in groups[group] : inbox[c] = <<>>
                /\ inbox' = GroupSend(group, msg)
                /\ last_send' = [eid |-> eid, group |-> group, type |-> msg.type,
                                 order |-> payload, members |-> groups[group]]
                /\ req' = [req EXCEPT ![r] = Respond(r, "sent")]
           ELSE /\ req' = [req EXCEPT ![r] = Respond(r, "failed")]
                /\ UNCHANGED <<inbox, last_send>>
    /\ UNCHANGED <<orders, order_items, conn, groups, received>>

\* async_to_sync(channel_layer.group_send)(group, {'type': ..., 'order': payload});
\* an exception is caught and printed, and the view returns its success response.
Publish(r) ==
    /\ req[r].pc = "send"
    /\ LET payload == req[r].order_fresh
           group   == TargetGroup(req[r].op, payload)
           eid     == last_send.eid + 1
           msg     == Message(EventType(req[r].op), payload, eid)
       IN  IF ValidGroupName(group)
           THEN /\ inbox' = GroupSend(group, msg)
                /\ last_send' = [eid |-> eid, group |-> group, type |-> msg.type,
                                 order |-> payload, members |-> groups[group]]
                /\ req' = [req EXCEPT ![r] =
                              Respond(r, "sent")]
           ELSE /\ req' = [req EXCEPT ![r] =
                              Respond(r, "failed")]
                /\ UNCHANGED <<inbox, last_send>>
    /\ UNCHANGED <<orders, order_items, conn, groups, received>>

(***************************************************************************)
(* accept_order (views.py).                                                *)
(***************************************************************************)
\* waiter_name = request.data.get('waiter_name', '').strip(); the order is read with
\* Order.objects.prefetch_related('order_items').get(id=order_id) and its status is
\* checked on the instance that was read.
\* History for the properties, not state of the view: the channels that are in the
\* kitchen group of the order's tenant when the call arrives.
KitchenViewers(order_id) == groups[GroupName("kitchen", orders[order_id].client_id)]

CanAcceptAlsoReady(order) == order.status \in {"pending", "ready"}

\* if order.status != 'pending': return 400
CanAccept(order) == order.status = "pending"

AcceptOrderBeginAnnouncesRejected(r, order_id, supplied) ==
    /\ FreeSlot(r)
    /\ LET waiter_name == Strip(supplied)
           asked       == [Answer("accept_order", order_id, None)
                           EXCEPT !.waiter_name = supplied]
       IN  IF waiter_name = Blank
           THEN req' = [req EXCEPT ![r] = [asked EXCEPT !.response = "ValidationError"]]
           ELSE IF order_id \notin OrderIds
           THEN req' = [req EXCEPT ![r] = [asked EXCEPT !.response = "NotFound"]]
           ELSE IF ~CanAccept(orders[order_id])
           THEN req' = [req EXCEPT ![r] = [asked EXCEPT !.pc = "fetch"]]
           ELSE /\ PublishBudget < MaxEvents
                /\ req' = [req EXCEPT ![r] =
                             [asked EXCEPT !.pc = "save",
                                           !.order = [orders[order_id] EXCEPT
                                                         !.waiter_name = waiter_name,
                                                         !.status = "preparing"],
                                           !.viewers = KitchenViewers(order_id)]]
    /\ UNCHANGED <<orders, order_items, conn, groups, inbox, received, last_send>>

AcceptOrderBegin(r, order_id, supplied) ==
    /\ FreeSlot(r)
    /\ LET waiter_name == Strip(supplied)
           asked       == [Answer("accept_order", order_id, None)
                           EXCEPT !.waiter_name = supplied]
       IN  IF waiter_name = Blank
           THEN req' = [req EXCEPT ![r] = [asked EXCEPT !.response = "ValidationError"]]
           ELSE IF order_id \notin OrderIds
           THEN req' = [req EXCEPT ![r] = [asked EXCEPT !.response = "NotFound"]]
           ELSE IF ~CanAccept(orders[order_id])
           THEN req' = [req EXCEPT ![r] = [asked EXCEPT !.response = "InvalidTransition"]]
           ELSE /\ PublishBudget < MaxEvents
                /\ req' = [req EXCEPT ![r] =
                             [asked EXCEPT !.pc = "save",
                                           !.order = [orders[order_id] EXCEPT
                                                         !.waiter_name = waiter_name,
                                                         !.status = "preparing"],
                                           !.viewers = KitchenViewers(order_id)]]
    /\ UNCHANGED <<orders, order_items, conn, groups, inbox, received, last_send>>

SaveRowBlankTenant(order_id, row) ==
    [orders EXCEPT ![order_id] = [row EXCEPT !.client_id = None]]

\* order.save(): Model.save() writes every column of the instance.
SaveRow(order_id, row) == [orders EXCEPT ![order_id] = row]

AcceptOrderSaveSkipped(r) ==
    /\ req[r].op = "accept_order" /\ req[r].pc = "save"
    /\ req' = [req EXCEPT ![r].pc = "fetch"]
    /\ UNCHANGED <<orders, order_items, conn, groups, inbox, received, last_send>>

AcceptOrderSave(r) ==
    /\ req[r].op = "accept_order" /\ req[r].pc = "save"
    /\ orders' = SaveRow(req[r].order_id, req[r].order)
    /\ req' = [req EXCEPT ![r].pc = "fetch"]
    /\ UNCHANGED <<order_items, conn, groups, inbox, received, last_send>>

(***************************************************************************)
(* cancel_order (views.py).                                                *)
(***************************************************************************)
CanCancelCompleted(order) == order.status # "cancelled"

\* if order.status in ['completed', 'cancelled']: return 400
CanCancel(order) == order.status \notin {"completed", "cancelled"}

CancelOrderBegin(r, order_id) ==
    /\ FreeSlot(r)
    /\ IF order_id \notin OrderIds
       THEN req' = [req EXCEPT ![r] = Answer("cancel_order", order_id, "NotFound")]
       ELSE IF ~CanCancel(orders[order_id])
       THEN req' = [req EXCEPT ![r] =
                       Answer("cancel_order", order_id, "InvalidTransition")]
       ELSE req' = [req EXCEPT ![r] =
                       [Idle EXCEPT !.op = "cancel_order", !.pc = "save",
                                    !.order_id = order_id,
                                    !.order = [orders[order_id] EXCEPT !.status = "cancelled"]]]
    /\ UNCHANGED <<orders, order_items, conn, groups, inbox, received, last_send>>

CancelOrderSaveDropsItems(r) ==
    /\ req[r].op = "cancel_order" /\ req[r].pc = "save"
    /\ orders' = SaveRow(req[r].order_id, req[r].order)
    /\ order_items' = [order_items EXCEPT ![req[r].order_id] = <<>>]
    /\ req' = [req EXCEPT ![r] = Done(r, req[r].order_id, "success", None)]
    /\ UNCHANGED <<conn, groups, inbox, received, last_send>>

CancelOrderSave(r) ==
    /\ req[r].op = "cancel_order" /\ req[r].pc = "save"
    /\ orders' = SaveRow(req[r].order_id, req[r].order)
    /\ req' = [req EXCEPT ![r] = Done(r, req[r].order_id, "success", None)]
    /\ UNCHANGED <<order_items, conn, groups, inbox, received, last_send>>

(***************************************************************************)
(* update_order_status (views.py).                                         *)
(***************************************************************************)
\* The place of a status on the line pending, preparing, ready, completed.
Rank(st) ==
    CASE st = "pending" -> 1 [] st = "preparing" -> 2 [] st = "ready" -> 3
      [] st = "completed" -> 4 [] OTHER -> 5

UpdateOrderStatusBeginForwardOnly(r, order_id, new_status) ==
    /\ FreeSlot(r)
    /\ LET asked == [Answer("update_order_status", order_id, None)
                     EXCEPT !.new_status = new_status]
       IN  IF new_status = None
           THEN req' = [req EXCEPT ![r] = [asked EXCEPT !.response = "ValidationError"]]
           ELSE IF order_id \notin OrderIds
           THEN req' = [req EXCEPT ![r] = [asked EXCEPT !.response = "NotFound"]]
           ELSE IF Rank(new_status) < Rank(orders[order_id].status)
           THEN req' = [req EXCEPT ![r] = [asked EXCEPT !.response = "InvalidTransition"]]
           ELSE req' = [req EXCEPT ![r] =
                           [asked EXCEPT !.pc = "save",
                                         !.order = [orders[order_id] EXCEPT
                                                       !.status = new_status]]]
    /\ UNCHANGED <<orders, order_items, conn, groups, inbox, received, last_send>>

\* new_status = None stands for a request without 'status'.  No other check is made
\* on new_status or on the order's current status.
UpdateOrderStatusBegin(r, order_id, new_status) ==
    /\ FreeSlot(r)
    /\ LET asked == [Answer("update_order_status", order_id, None)
                     EXCEPT !.new_status = new_status]
       IN  IF new_status = None
           THEN req' = [req EXCEPT ![r] = [asked EXCEPT !.response = "ValidationError"]]
           ELSE IF order_id \notin OrderIds
           THEN req' = [req EXCEPT ![r] = [asked EXCEPT !.response = "NotFound"]]
           ELSE req' = [req EXCEPT ![r] =
                           [asked EXCEPT !.pc = "save",
                                         !.order = [orders[order_id] EXCEPT
                                                       !.status = new_status]]]
    /\ UNCHANGED <<orders, order_items, conn, groups, inbox, received, last_send>>

UpdateOrderStatusSaveAnnounces(r) ==
    /\ req[r].op = "update_order_status" /\ req[r].pc = "save"
    /\ orders' = SaveRow(req[r].order_id, req[r].order)
    /\ req' = [req EXCEPT ![r].pc = "fetch"]
    /\ UNCHANGED <<order_items, conn, groups, inbox, received, last_send>>

UpdateOrderStatusSave(r) ==
    /\ req[r].op = "update_order_status" /\ req[r].pc = "save"
    /\ orders' = SaveRow(req[r].order_id, req[r].order)
    /\ req' = [req EXCEPT ![r] = Done(r, req[r].order_id, "success", None)]
    /\ UNCHANGED <<order_items, conn, groups, inbox, received, last_send>>

(***************************************************************************)
(* get_orders (views.py).                                                  *)
(***************************************************************************)
MatchesUsernameFirst(row, client_id, username, status_filter) ==
    /\ (username # None => row.username = username)
    /\ (username = None => row.client_id = client_id)
    /\ (status_filter # None => row.status = status_filter)

\* Order.objects.filter(client_id=client_id), then .filter(username=username) and
\* .filter(status=status_filter) when they are given.
Matches(row, client_id, username, status_filter) ==
    /\ row.client_id = client_id
    /\ (username # None => row.username = username)
    /\ (status_filter # None => row.status = status_filter)

\* OrderItemSerializer: the stored columns of a line and its three computed figures.
SerializedItem(item) ==
    [name |-> item.name, quantity |-> item.quantity, price |-> item.price, tax |-> item.tax,
     item_total |-> item_total(item), tax_amount |-> tax_amount(item),
     item_total_with_tax |-> item_total_with_tax(item)]

RECURSIVE SerializedItems(_)
SerializedItems(items) ==
    IF items = <<>> THEN <<>>
    ELSE <<SerializedItem(Head(items))>> \o SerializedItems(Tail(items))

\* OrderSerializer: what a response shows of an order.
Serialized(id) ==
    [id |-> id, client_id |-> orders[id].client_id, username |-> orders[id].username,
     status |-> orders[id].status, created_at |-> orders[id].created_at,
     order_items |-> SerializedItems(order_items[id])]

RECURSIVE FilteredOldestFirst(_, _, _, _)
FilteredOldestFirst(n, client_id, username, status_filter) ==
    IF n = 0 THEN <<>>
    ELSE FilteredOldestFirst(n - 1, client_id, username, status_filter)
         \o (IF Matches(orders[n], client_id, username, status_filter)
             THEN <<Serialized(n)>> ELSE <<>>)

\* list(queryset.order_by('-created_at')): ids are handed out in creation order, so
\* the newest order has the highest id.
RECURSIVE Filtered(_, _, _, _)
Filtered(n, client_id, username, status_filter) ==
    IF n = 0 THEN <<>>
    ELSE (IF Matches(orders[n], client_id, username, status_filter)
          THEN <<Serialized(n)>> ELSE <<>>)
         \o Filtered(n - 1, client_id, username, status_filter)

GetOrders(r, client_id, username, status_filter) ==
    /\ FreeSlot(r)
    /\ IF client_id = None
       THEN req' = [req EXCEPT ![r] =
                       [Answer("get_orders", 0, "ValidationError")
                        EXCEPT !.query = <<client_id, username, status_filter>>]]
       ELSE req' = [req EXCEPT ![r] =
                       [Answer("get_orders", 0, "success")
                        EXCEPT !.query = <<client_id, username, status_filter>>,
                               !.out = Filtered(Len(orders), client_id, username,
                                                status_filter)]]
    /\ UNCHANGED <<orders, order_items, conn, groups, inbox, received, last_send>>

(***************************************************************************)
(* get_order_stats (views.py).                                             *)
(***************************************************************************)
\* The statuses get_order_stats counts, in the order of its queries.
StatsStatuses == <<"pending", "preparing", "ready", "completed", "cancelled">>

\* orders.count() and orders.filter(status=...).count(), orders being
\* Order.objects.filter(client_id=client_id, username=username).
RECURSIVE CountOrders(_, _, _, _)
CountOrders(n, client_id, username, status_filter) ==
    IF n = 0 THEN 0
    ELSE (IF Matches(orders[n], client_id, username, status_filter) THEN 1 ELSE 0)
         + CountOrders(n - 1, client_id, username, status_filter)

RECURSIVE SumTotalAnyStatus(_, _, _)
SumTotalAnyStatus(n, client_id, username) ==
    IF n = 0 THEN 0
    ELSE (IF Matches(orders[n], client_id, username, None)
          THEN orders[n].total_amount ELSE 0)
         + SumTotalAnyStatus(n - 1, client_id, username)

\* orders.filter(status='completed').aggregate(Sum('total_amount'))['total_amount__sum']
\* or 0
RECURSIVE SumTotal(_, _, _)
SumTotal(n, client_id, username) ==
    IF n = 0 THEN 0
    ELSE (IF Matches(orders[n], client_id, username, "completed")
          THEN orders[n].total_amount ELSE 0)
         + SumTotal(n - 1, client_id, username)

\* The k-th figure of the response, each the result of a query of its own: total_orders,
\* the five counts by status, total_revenue.
Figure(k, client_id, username) ==
    IF k = 1 THEN CountOrders(Len(orders), client_id, username, None)
    ELSE IF k <= 6 THEN CountOrders(Len(orders), client_id, username, StatsStatuses[k - 1])
    ELSE SumTotal(Len(orders), client_id, username)

\* The check of the parameters and the first query.
GetOrderStatsBegin(r, client_id, username) ==
    /\ FreeSlot(r)
    /\ IF client_id = None \/ username = None
       THEN req' = [req EXCEPT ![r] =
                       [Answer("get_order_stats", 0, "ValidationError")
                        EXCEPT !.query = <<client_id, username>>]]
       ELSE req' = [req EXCEPT ![r] =
                       [Idle EXCEPT !.op = "get_order_stats", !.pc = "count",
                                    !.query = <<client_id, username>>,
                                    !.out = <<Figure(1, client_id, username)>>]]
    /\ UNCHANGED <<orders, order_items, conn, groups, inbox, received, last_send>>

\* The next query; the response is returned after the seventh.
GetOrderStatsQuery(r) ==
    /\ req[r].op = "get_order_stats" /\ req[r].pc = "count"
    /\ LET k   == Len(req[r].out) + 1
           out == Append(req[r].out, Figure(k, req[r].query[1], req[r].query[2]))
       IN  req' = [req EXCEPT ![r] =
                      IF k < 7
                      THEN [req[r] EXCEPT !.out = out]
                      ELSE [Answer("get_order_stats", 0, "success")
                            EXCEPT !.query = req[r].query, !.out = out]]
    /\ UNCHANGED <<orders, order_items, conn, groups, inbox, received, last_send>>

(***************************************************************************)
(* get_order_detail (views.py).                                            *)
(***************************************************************************)
\* Order.objects.prefetch_related('order_items').get(id=order_id); DoesNotExist gives
\* the 404 response.
GetOrderDetail(r, order_id) ==
    /\ FreeSlot(r)
    /\ IF order_id \notin OrderIds
       THEN req' = [req EXCEPT ![r] = Answer("get_order_detail", order_id, "NotFound")]
       ELSE req' = [req EXCEPT ![r] =
                       [Answer("get_order_detail", order_id, "success")
                        EXCEPT !.out = <<Serialized(order_id)>>]]
    /\ UNCHANGED <<orders, order_items, conn, groups, inbox, received, last_send>>

(***************************************************************************)
(* WaiterConsumer and KitchenConsumer (consumers.py).                       *)
(***************************************************************************)
\* connect(): client_id comes from the URL route; group_add, then accept().
\* group_add raises on an invalid group name and the handshake fails.
\* Channels are opened in the order of their names (they are interchangeable).
InboxOnJoinReplay(c, group) ==
    IF last_send.group = group
    THEN Append(inbox[c], Message(last_send.type, last_send.order, last_send.eid))
    ELSE inbox[c]

\* group_add only records the channel in the group: nothing sent earlier is put on
\* the channel's queue.
InboxOnJoin(c, group) == inbox[c]

Connect(c, role, client_id) ==
    /\ conn[c].state = "new"
    /\ \A d \in Conns : d < c => conn[d].state # "new"
    /\ LET group == GroupName(role, client_id)
       IN  IF ValidGroupName(group)
           THEN /\ groups' = [groups EXCEPT ![group] = @ \cup {c}]
                /\ inbox' = [inbox EXCEPT ![c] = InboxOnJoin(c, group)]
                /\ conn' = [conn EXCEPT ![c] =
                               [state |-> "open", role |-> role, client_id |-> client_id,
                                joined |-> last_send.eid, heard |-> 0]]
           ELSE /\ conn' = [conn EXCEPT ![c] =
                               [state |-> "closed", role |-> role, client_id |-> client_id,
                                joined |-> last_send.eid, heard |-> 0]]
                /\ UNCHANGED <<groups, inbox>>
    /\ UNCHANGED <<orders, order_items, req, received, last_send>>

DisconnectEmptiesGroup(c) ==
    /\ conn[c].state = "open"
    /\ groups' = [groups EXCEPT ![GroupName(conn[c].role, conn[c].client_id)] = {}]
    /\ conn' = [conn EXCEPT ![c].state = "closed"]
    /\ UNCHANGED <<orders, order_items, req, inbox, received, last_send>>

\* disconnect(): group_discard(self.group_name, self.channel_name).
Disconnect(c) ==
    /\ conn[c].state = "open"
    /\ groups' = [groups EXCEPT ![GroupName(conn[c].role, conn[c].client_id)] = @ \ {c}]
    /\ conn' = [conn EXCEPT ![c].state = "closed"]
    /\ UNCHANGED <<orders, order_items, req, inbox, received, last_send>>

DisconnectKeepsGroup(c) ==
    /\ conn[c].state = "open"
    /\ conn' = [conn EXCEPT ![c].state = "closed"]
    /\ UNCHANGED <<orders, order_items, req, groups, inbox, received, last_send>>

\* The frames a client sends: text frames, and a binary frame.
TextFrames == {"ping", "new_order"}

ReceiveTextLeaves(c, text_data) ==
    /\ conn[c].state = "open"
    /\ conn[c].heard < MaxFrames
    /\ conn' = [conn EXCEPT ![c].heard = @ + 1]
    /\ groups' = [groups EXCEPT ![GroupName(conn[c].role, conn[c].client_id)] = @ \ {c}]
    /\ UNCHANGED <<orders, order_items, req, inbox, received, last_send>>

\* receive(self, text_data): pass.  heard counts the frames the client has sent; it is
\* history, the consumer keeps nothing of a frame.
ReceiveText(c, text_data) ==
    /\ conn[c].state = "open"
    /\ conn[c].heard < MaxFrames
    /\ conn' = [conn EXCEPT ![c].heard = @ + 1]
    /\ UNCHANGED <<orders, order_items, req, groups, inbox, received, last_send>>

\* A binary frame is handed over as receive(bytes_data=...).  receive takes text_data
\* only, so the call raises TypeError out of the consumer: the consumer ends, the
\* server closes the socket, and disconnect() is never run for it.
ReceiveBytes(c) ==
    /\ conn[c].state = "open"
    /\ conn[c].heard < MaxFrames
    /\ conn' = [conn EXCEPT ![c].heard = @ + 1, ![c].state = "closed"]
    /\ UNCHANGED <<orders, order_items, req, groups, inbox, received, last_send>>

\* The handler methods a consumer class defines.
Handles(role, type) ==
    \/ role = "waiter" /\ type = "new_order"
    \/ role = "kitchen" /\ type = "order_accepted"

FrameBare(msg) == [type |-> msg.type, order |-> NoPayload, eid |-> msg.eid]

\* new_order(event) / order_accepted(event): the consumer takes the next message of
\* its channel and writes {'type': ..., 'order': event['order']} to the socket.
Frame(msg) == [type |-> msg.type, order |-> msg.order, eid |-> msg.eid]

Deliver(c) ==
    /\ conn[c].state = "open"
    /\ inbox[c] # <<>>
    /\ Handles(conn[c].role, Head(inbox[c]).type)
    /\ received' = [received EXCEPT ![c] = Append(@, Frame(Head(inbox[c])))]
    /\ inbox' = [inbox EXCEPT ![c] = Tail(@)]
    /\ UNCHANGED <<orders, order_items, req, conn, groups, last_send>>

DeliverFailsForAll(c) ==
    /\ conn[c].state = "open"
    /\ inbox[c] # <<>>
    /\ Handles(conn[c].role, Head(inbox[c]).type)
    /\ inbox' = [d \in Conns |->
                    IF inbox[d] # <<>> /\ Head(inbox[d]).eid = Head(inbox[c]).eid
                    THEN Tail(inbox[d]) ELSE inbox[d]]
    /\ \E state \in {"open", "closed"} : conn' = [conn EXCEPT ![c].state = state]
    /\ UNCHANGED <<orders, order_items, req, groups, received, last_send>>

\* new_order(event) / order_accepted(event) when await self.send(...) does not reach the
\* client (the socket has gone): the message the consumer took from its channel is
\* written nowhere.  Either the frame is dropped and the consumer goes on, or the call
\* raises out of the consumer, which ends without disconnect() being run for it.
DeliverFails(c) ==
    /\ conn[c].state = "open"
    /\ inbox[c] # <<>>
    /\ Handles(conn[c].role, Head(inbox[c]).type)
    /\ inbox' = [inbox EXCEPT ![c] = Tail(@)]
    /\ \E state \in {"open", "closed"} : conn' = [conn EXCEPT ![c].state = state]
    /\ UNCHANGED <<orders, order_items, req, groups, received, last_send>>

(***************************************************************************)
(* Specifications.                                                         *)
(***************************************************************************)
\* The request handlers, for requests drawn from the given input sets, with at most
\* limit orders placed.
Requests(S, Accts, Lists, limit, Names, NewStatuses) ==
    \/ \E r \in S, a \in Accts, items \in Lists :
           Len(orders) < limit /\ CreateOrderBegin(r, a[1], a[2], items)
    \/ \E r \in S : CreateOrderBegin(r, None, "u1", <<>>)
    \/ \E r \in S : CreateOrderItem(r)
    \/ \E r \in S, id \in 1..limit, w \in Names :
           AcceptOrderBegin(r, id, w)
    \/ \E r \in S : AcceptOrderSave(r)
    \/ \E r \in S, id \in 1..limit : CancelOrderBegin(r, id)
    \/ \E r \in S : CancelOrderSave(r)
    \/ \E r \in S, id \in 1..limit, st \in NewStatuses :
           UpdateOrderStatusBegin(r, id, st)
    \/ \E r \in S : UpdateOrderStatusSave(r)
    \/ \E r \in S : Refetch(r)
    \/ \E r \in S : Publish(r)

Next ==
    Requests(Slots, {<<"A", "u1">>, <<"x y", "u1">>}, {<<Tea, Bun>>, <<Tea, Bad>>}, RaceOrders,
             {Rajan, Padded, Spaces}, {"pending", "ready", "completed", None})

Spec == Init /\ [][Next]_vars

\* Orders of several tenants and accounts, placed, cancelled and listed one request
\* at a time.
TenantsNext ==
    \/ \E r \in Serial, a \in Accounts :
           Len(orders) < MaxOrders /\ CreateOrderBegin(r, a[1], a[2], <<Tea>>)
    \/ \E r \in Serial : CreateOrderItem(r)
    \/ \E r \in Serial : Refetch(r)
    \/ \E r \in Serial : Publish(r)
    \/ \E r \in Serial, id \in 1..MaxOrders : CancelOrderBegin(r, id)
    \/ \E r \in Serial : CancelOrderSave(r)
    \/ \E r \in Serial, c \in {"A", "B", None}, u \in Usernames \cup {None},
          st \in {"pending", "cancelled", None} : GetOrders(r, c, u, st)

SpecTenants == Init /\ [][TenantsNext]_vars

\* Orders of two tenants placed and accepted one request at a time, while waiter and
\* kitchen panels connect, read and disconnect.
NotifyNext ==
    \/ \E r \in Serial, a \in {<<"A", "u1">>, <<"B", "u1">>, <<"x y", "u1">>} :
           Len(orders) < MaxOrders /\ CreateOrderBegin(r, a[1], a[2], <<Tea>>)
    \/ \E r \in Serial : CreateOrderItem(r)
    \/ \E r \in Serial, id \in 1..MaxOrders : AcceptOrderBegin(r, id, Rajan)
    \/ \E r \in Serial : AcceptOrderSave(r)
    \/ \E r \in Serial : Refetch(r)
    \/ \E r \in Serial : Publish(r)
    \/ \E c \in Conns, role \in Roles, client_id \in ClientIds : Connect(c, role, client_id)
    \/ \E c \in Conns : Disconnect(c)
    \/ \E c \in Conns : Deliver(c)

SpecNotify == Init /\ [][NotifyNext]_vars

\* The same, with every handler that is running its notification block going on to its
\* next step (the view is straight-line code in a thread that is never parked); nothing
\* is assumed of the panels, which may read late or never.
SpecNotifyFair ==
    SpecNotify /\ \A r \in Serial : WF_vars(Refetch(r)) /\ WF_vars(Publish(r))

\* The whole life of orders of one tenant, one request at a time: requests with a
\* required field missing, lines with a quantity of zero, a blank waiter name, a status
\* outside STATUS_CHOICES, and order ids that are not in the store.
LifecycleNext ==
    \/ \E r \in Serial, u \in {"u1", None}, items \in {<<Tea>>, <<Zero>>} :
           Len(orders) < MaxOrders /\ CreateOrderBegin(r, "A", u, items)
    \/ \E r \in Serial : CreateOrderBegin(r, None, "u1", <<Tea>>)
    \/ \E r \in Serial : CreateOrderItem(r)
    \/ \E r \in Serial, id \in 1..MaxOrders, w \in {Rajan, Blank} :
           AcceptOrderBegin(r, id, w)
    \/ \E r \in Serial : AcceptOrderSave(r)
    \/ \E r \in Serial, id \in 1..MaxOrders : CancelOrderBegin(r, id)
    \/ \E r \in Serial : CancelOrderSave(r)
    \/ \E r \in Serial, id \in 1..MaxOrders, st \in {"bogus", "completed", None} :
           UpdateOrderStatusBegin(r, id, st)
    \/ \E r \in Serial : UpdateOrderStatusSave(r)
    \/ \E r \in Serial, id \in 1..MaxOrders : GetOrderDetail(r, id)
    \/ \E r \in Serial : Refetch(r)
    \/ \E r \in Serial : Publish(r)

SpecLifecycle == Init /\ [][LifecycleNext]_vars

\* Orders of several accounts placed, moved on and cancelled while the figures of an
\* account and its orders are read, one request at a time.
StatsNext ==
    \/ \E r \in Serial, a \in {<<"A", "u1">>, <<"A", "u2">>, <<"B", "u1">>},
          items \in {<<Tea>>, <<Bun>>} :
           Len(orders) < MaxOrders /\ CreateOrderBegin(r, a[1], a[2], items)
    \/ \E r \in Serial : CreateOrderItem(r)
    \/ \E r \in Serial : Refetch(r)
    \/ \E r \in Serial : Publish(r)
    \/ \E r \in Serial, id \in 1..MaxOrders, st \in {"ready", "completed"} :
           UpdateOrderStatusBegin(r, id, st)
    \/ \E r \in Serial : UpdateOrderStatusSave(r)
    \/ \E r \in Serial, id \in 1..MaxOrders : CancelOrderBegin(r, id)
    \/ \E r \in Serial : CancelOrderSave(r)
    \/ \E r \in Serial, c \in {"A", None}, u \in {"u1", None} : GetOrderStatsBegin(r, c, u)
    \/ \E r \in Serial : GetOrderStatsQuery(r)
    \/ \E r \in Serial, id \in 1..MaxOrders : GetOrderDetail(r, id)

SpecStats == Init /\ [][StatsNext]_vars

\* Panels of one tenant that connect, send frames of their own, read and disconnect
\* while orders of the tenant are placed and accepted, one request at a time.
InboundNext ==
    \/ \E r \in Serial :
           Len(orders) < MaxOrders /\ CreateOrderBegin(r, "A", "u1", <<Tea>>)
    \/ \E r \in Serial : CreateOrderItem(r)
    \/ \E r \in Serial, id \in 1..MaxOrders : AcceptOrderBegin(r, id, Rajan)
    \/ \E r \in Serial : AcceptOrderSave(r)
    \/ \E r \in Serial : Refetch(r)
    \/ \E r \in Serial : Publish(r)
    \/ \E c \in Conns, role \in Roles : Connect(c, role, "A")
    \/ \E c \in Conns : Disconnect(c)
    \/ \E c \in Conns : Deliver(c)
    \/ \E c \in Conns, text_data \in TextFrames : ReceiveText(c, text_data)
    \/ \E c \in Conns : ReceiveBytes(c)

SpecInbound == Init /\ [][InboundNext]_vars

\* Panels of one tenant that connect, read and disconnect, and whose sockets may fail,
\* while orders of the tenant are placed and accepted, one request at a time.
FanoutNext ==
    \/ \E r \in Serial :
           Len(orders) < MaxOrders /\ CreateOrderBegin(r, "A", "u1", <<Tea>>)
    \/ \E r \in Serial : CreateOrderItem(r)
    \/ \E r \in Serial, id \in 1..MaxOrders : AcceptOrderBegin(r, id, Rajan)
    \/ \E r \in Serial : AcceptOrderSave(r)
    \/ \E r \in Serial : Refetch(r)
    \/ \E r \in Serial : Publish(r)
    \/ \E c \in Conns, role \in Roles : Connect(c, role, "A")
    \/ \E c \in Conns : Disconnect(c)
    \/ \E c \in Conns : Deliver(c)
    \/ \E c \in Conns : DeliverFails(c)

SpecFanout == Init /\ [][FanoutNext]_vars

\* Orders of one account placed, accepted, moved to any of the five statuses and
\* cancelled, one request at a time.
AdvanceNext ==
    \/ \E r \in Serial :
           Len(orders) < MaxOrders /\ CreateOrderBegin(r, "A", "u1", <<Tea>>)
    \/ \E r \in Serial : CreateOrderItem(r)
    \/ \E r \in Serial, id \in 1..MaxOrders : AcceptOrderBegin(r, id, Rajan)
    \/ \E r \in Serial : AcceptOrderSave(r)
    \/ \E r \in Serial : Refetch(r)
    \/ \E r \in Serial : Publish(r)
    \/ \E r \in Serial, id \in 1..MaxOrders, st \in STATUS_CHOICES :
           UpdateOrderStatusBegin(r, id, st)
    \/ \E r \in Serial : UpdateOrderStatusSave(r)
    \/ \E r \in Serial, id \in 1..MaxOrders : CancelOrderBegin(r, id)
    \/ \E r \in Serial : CancelOrderSave(r)

SpecAdvance == Init /\ [][AdvanceNext]_vars

\* Orders of one tenant placed, accepted, moved on and cancelled, one request at a
\* time, while waiter and kitchen panels of the tenant connect, read and disconnect.
FloorNext ==
    \/ \E r \in Serial :
           Len(orders) < MaxOrders /\ CreateOrderBegin(r, "A", "u1", <<Tea>>)
    \/ \E r \in Serial : CreateOrderItem(r)
    \/ \E r \in Serial, id \in 1..MaxOrders : AcceptOrderBegin(r, id, Rajan)
    \/ \E r \in Serial : AcceptOrderSave(r)
    \/ \E r \in Serial : Refetch(r)
    \/ \E r \in Serial : Publish(r)
    \/ \E r \in Serial, id \in 1..MaxOrders, st \in {"ready", "completed"} :
           UpdateOrderStatusBegin(r, id, st)
    \/ \E r \in Serial : UpdateOrderStatusSave(r)
    \/ \E r \in Serial, id \in 1..MaxOrders : CancelOrderBegin(r, id)
    \/ \E r \in Serial : CancelOrderSave(r)
    \/ \E c \in Conns, role \in Roles : Connect(c, role, "A")
    \/ \E c \in Conns : Disconnect(c)
    \/ \E c \in Conns : Deliver(c)

SpecFloor == Init /\ [][FloorNext]_vars

\* The figures of an account read while an order of the account is placed and moved
\* on by requests that run at the same time.
StatsRaceNext ==
    \/ \E r \in Slots :
           Len(orders) < RaceOrders /\ CreateOrderBegin(r, "A", "u1", <<Tea>>)
    \/ \E r \in Slots : CreateOrderItem(r)
    \/ \E r \in Slots : Refetch(r)
    \/ \E r \in Slots : Publish(r)
    \/ \E r \in Slots, id \in 1..RaceOrders, st \in {"completed", "bogus"} :
           UpdateOrderStatusBegin(r, id, st)
    \/ \E r \in Slots : UpdateOrderStatusSave(r)
    \/ \E r \in Slots : GetOrderStatsBegin(r, "A", "u1")
    \/ \E r \in Slots : GetOrderStatsQuery(r)

SpecStatsRace == Init /\ [][StatsRaceNext]_vars

(***************************************************************************)
(* Steps of a handler, read off a transition.                              *)
(***************************************************************************)
\* Slot r starts a request of the given view in this step.
Starts(r, op) == IsFree(r) /\ req'[r] # req[r] /\ req'[r].op = op

\* Slot r, running the given view, makes its save() in this step.
Saves(r, op) == req[r].op = op /\ req[r].pc = "save" /\ req'[r].pc # "save"

\* Slot r returns in this step after passing the view's checks.
Finishes(r, op) ==
    req[r].op = op /\ req[r].pc \in {"save", "fetch", "send"} /\ req'[r].pc = "done"

Rejected(r, response) ==
    /\ req'[r].pc = "done" /\ req'[r].response = response
    /\ orders' = orders /\ order_items' = order_items

(***************************************************************************)
(* Order state machine.                                                    *)
(***************************************************************************)
\* C1 (as amended): accept-order with a name that is not blank once stripped, on an
\* existing order, passes its check iff the order's status is pending at that moment;
\* its save leaves the order with status preparing and waiter_name equal to the supplied
\* name with the surrounding whitespace stripped, and the call then returns success;
\* for every other status it returns InvalidTransition and no row changes.
C1_AcceptContract ==
    [][\A r \in Slots :
          /\ (Starts(r, "accept_order") /\ req'[r].order_id \in OrderIds
                /\ Strip(req'[r].waiter_name) # Blank) =>
                 /\ req'[r].pc = "save" <=> orders[req'[r].order_id].status = "pending"
                 /\ req'[r].pc # "save" => Rejected(r, "InvalidTransition")
          /\ Saves(r, "accept_order") =>
                 /\ orders'[req[r].order_id].status = "preparing"
                 /\ orders'[req[r].order_id].waiter_name = Strip(req[r].waiter_name)
          /\ Finishes(r, "accept_order") => req'[r].response = "success"
      ]_vars

\* C1 witness: an accept with a padded name has just saved the order.
C1_Witness ==
    \E r \in Slots :
        /\ req[r].op = "accept_order" /\ req[r].pc = "fetch"
        /\ req[r].waiter_name = Padded
        /\ orders[req[r].order_id].status = "preparing"
        /\ orders[req[r].order_id].waiter_name = Sita

\* C1 as stated: on an existing order accept-order succeeds iff the status is pending,
\* and after it waiter_name equals the supplied name.
C1_AsStated ==
    [][\A r \in Slots :
          /\ (Starts(r, "accept_order") /\ req'[r].order_id \in OrderIds) =>
                 /\ req'[r].pc = "save" <=> orders[req'[r].order_id].status = "pending"
                 /\ req'[r].pc # "save" => Rejected(r, "InvalidTransition")
          /\ Saves(r, "accept_order") =>
                 /\ orders'[req[r].order_id].status = "preparing"
                 /\ orders'[req[r].order_id].waiter_name = req[r].waiter_name
          /\ Finishes(r, "accept_order") => req'[r].response = "success"
      ]_vars

\* C2: cancel-order on an existing order passes its check iff the order's status is
\* neither completed nor cancelled; its save leaves the status cancelled and the call
\* returns success; otherwise it returns InvalidTransition and no row changes.
C2_CancelContract ==
    [][\A r \in Slots :
          /\ (Starts(r, "cancel_order") /\ req'[r].order_id \in OrderIds) =>
                 /\ req'[r].pc = "save" <=>
                        orders[req'[r].order_id].status \notin {"completed", "cancelled"}
                 /\ req'[r].pc # "save" => Rejected(r, "InvalidTransition")
          /\ Saves(r, "cancel_order") =>
                 /\ orders'[req[r].order_id].status = "cancelled"
                 /\ req'[r].pc = "done" /\ req'[r].response = "success"
      ]_vars

\* C2 witness: a cancel has returned success and the order is cancelled,
\* while another cancel of it was turned down.
C2_Witness ==
    /\ req[1].op = "cancel_order" /\ req[1].pc = "done" /\ req[1].response = "success"
    /\ orders[req[1].order_id].status = "cancelled"
    /\ req[2].op = "cancel_order" /\ req[2].pc = "done"
    /\ req[2].response = "InvalidTransition"

\* C3 as stated: once an order is completed or cancelled its status never changes.
C3_Terminal ==
    [][\A id \in OrderIds :
          orders[id].status \in {"completed", "cancelled"} =>
              orders'[id].status = orders[id].status
      ]_vars

\* C4: a list-orders call without client_id is turned down and returns no order; with
\* client_id = A, whatever username and status filters come with it, every order it
\* returns is an order of tenant A.
C4_ListIsTenantScoped ==
    \A r \in Slots :
        (req[r].op = "get_orders" /\ req[r].pc = "done") =>
            IF req[r].query[1] = None
            THEN req[r].response = "ValidationError" /\ req[r].out = <<>>
            ELSE /\ req[r].response = "success"
                 /\ \A i \in 1..Len(req[r].out) :
                        /\ req[r].out[i].client_id = req[r].query[1]
                        /\ req[r].out[i].id \in OrderIds
                        /\ orders[req[r].out[i].id].client_id = req[r].query[1]

\* C4 witness: tenants A and B each have an order under username u1, and a listing
\* for client_id A narrowed to u1 has returned A's order alone.
C4_Witness ==
    \E r \in Slots :
        /\ req[r].op = "get_orders" /\ req[r].pc = "done"
        /\ req[r].query[1] = "A" /\ req[r].query[2] = "u1"
        /\ Len(req[r].out) = 1
        /\ \E id \in OrderIds : orders[id].client_id = "B" /\ orders[id].username = "u1"
                                 /\ orders[id].status = req[r].out[1].status

(***************************************************************************)
(* Snapshots and notification failure.                                     *)
(***************************************************************************)
\* C7 as stated: the items of a published payload are the complete items of the order.
C7_SnapshotComplete ==
    last_send.eid > 0 =>
        last_send.order.items = ItemSnapshots(order_items[last_send.order.id])

\* C10: when group_send raises in create_order or accept_order, the call still returns
\* success and the failing step changes no row of orders or order_items: the order
\* and what was committed for it stay in the store.
C10_NotifyFailureKeepsSuccess ==
    [][\A r \in Slots :
          (req[r].pc = "send" /\ req'[r].pc = "done" /\ req'[r].notify # "sent") =>
              /\ req'[r].response = "success"
              /\ req'[r].order_id \in OrderIds
              /\ orders' = orders /\ order_items' = order_items
      ]_vars

\* C10 witness: an accept whose group_send raised has returned success, and the order
\* is preparing under the waiter's name.
C10_Witness ==
    \E r \in Slots :
        /\ req[r].op = "accept_order" /\ req[r].pc = "done"
        /\ req[r].notify = "failed" /\ req[r].response = "success"
        /\ orders[req[r].order_id].status = "preparing"
        /\ orders[req[r].order_id].waiter_name = Rajan

(***************************************************************************)
(* Notification fan-out.                                                   *)
(***************************************************************************)
\* The copies of group_send call eid that channel c holds, queued or written out.
RECURSIVE Count(_, _)
Count(msgs, eid) ==
    IF msgs = <<>> THEN 0
    ELSE (IF Head(msgs).eid = eid THEN 1 ELSE 0) + Count(Tail(msgs), eid)

Copies(c, eid) == Count(inbox[c], eid) + Count(received[c], eid)

Seen(c) == {inbox[c][i] : i \in 1..Len(inbox[c])} \cup {received[c][i] : i \in 1..Len(received[c])}

\* C5: whatever a channel that joined a group of tenant A holds, queued or written to
\* its socket, is about an order of tenant A: the payload's client_id is the channel's,
\* and it is the client_id of the order the payload names.
C5_TenantIsolation ==
    \A c \in Conns : \A msg \in Seen(c) :
        /\ msg.order.client_id = conn[c].client_id
        /\ msg.order.id \in OrderIds
        /\ orders[msg.order.id].client_id = conn[c].client_id

\* C5 witness: waiter panels of tenants A and B are connected, the panel of A has been
\* sent the event of A's order, and the latest event, about an order of B, went to
\* the panel of B alone.
C5_Witness ==
    \E c, d \in Conns :
        /\ conn[c].state = "open" /\ conn[c].client_id = "A" /\ Seen(c) # {}
        /\ conn[d].state = "open" /\ conn[d].client_id = "B" /\ conn[d].role = conn[c].role
        /\ last_send.order.client_id = "B"
        /\ Copies(d, last_send.eid) = 1 /\ Copies(c, last_send.eid) = 0

\* A group_send step of slot r, running the given view.
Sends(r, op) == req[r].op = op /\ req[r].pc = "send" /\ req'[r].pc = "done"

\* Nothing a channel holds is lost or repeated: each group_send call has left at most
\* one copy with it, and the call that went through last has left one with every
\* channel that was in its group and is still connected.
OneCopyKept ==
    \A c \in Conns :
        /\ \A eid \in 1..last_send.eid : Copies(c, eid) <= 1
        /\ (c \in last_send.members /\ conn[c].state = "open") => Copies(c, last_send.eid) = 1

\* C6: when an accept-order that passed its check makes its group_send, every channel
\* that was in the kitchen group of the order's tenant when the call arrived and is
\* still connected gets exactly one order_accepted message for that order (if the
\* group_send raises, no such channel exists); the copy stays with the channel, queued
\* or written to its socket, and is never repeated.
C6_KitchenGetsOneAccepted ==
    /\ [][\A r \in Slots : Sends(r, "accept_order") =>
             \A c \in req[r].viewers : conn[c].state = "open" =>
                 /\ req'[r].notify = "sent"
                 /\ last_send'.eid = last_send.eid + 1
                 /\ last_send'.type = "order_accepted"
                 /\ last_send'.order.id = req[r].order_id
                 /\ Count(inbox'[c], last_send'.eid) = 1
                 /\ Count(received'[c], last_send'.eid) = 0
         ]_vars
    /\ []OneCopyKept

\* C6 witness: a kitchen panel that was connected when an accept arrived has the
\* order_accepted event of that call on its socket.
C6_Witness ==
    \E r \in Slots, c \in Conns :
        /\ req[r].op = "accept_order" /\ req[r].pc = "done" /\ req[r].notify = "sent"
        /\ c \in req[r].viewers /\ conn[c].state = "open"
        /\ last_send.type = "order_accepted" /\ last_send.order.id = req[r].order_id
        /\ Count(received[c], last_send.eid) = 1

\* C8: place-order appends a row with status pending and a null waiter_name; when its
\* group_send goes through, the event is a new_order for that order and exactly the
\* channels in the waiter group of the order's tenant at that moment get one copy
\* each, which stays with them and is never repeated.
C8_PlaceOrderNotifiesWaiters ==
    /\ [][\A r \in Slots :
             /\ (Starts(r, "create_order") /\ req'[r].response # "ValidationError") =>
                    /\ Len(orders') = Len(orders) + 1
                    /\ req'[r].order_id = Len(orders')
                    /\ orders'[Len(orders')].status = "pending"
                    /\ orders'[Len(orders')].waiter_name = NullName
             /\ (Sends(r, "create_order") /\ req'[r].notify = "sent") =>
                    /\ last_send'.eid = last_send.eid + 1
                    /\ last_send'.type = "new_order"
                    /\ last_send'.order.id = req[r].order_id
                    /\ \A c \in Conns :
                           Count(inbox'[c], last_send'.eid) =
                               IF c \in groups[GroupName("waiter",
                                                         orders[req[r].order_id].client_id)]
                               THEN 1 ELSE 0
             /\ (Sends(r, "create_order") /\ req'[r].notify # "sent") =>
                    groups[GroupName("waiter", orders[req[r].order_id].client_id)] = {}
         ]_vars
    /\ []OneCopyKept

\* C8 witness: a place-order has returned, and a waiter panel of the order's tenant
\* has its new_order event on the socket while a waiter panel of another tenant has
\* nothing.
C8_Witness ==
    \E r \in Slots, c, d \in Conns :
        /\ req[r].op = "create_order" /\ req[r].pc = "done" /\ req[r].notify = "sent"
        /\ last_send.type = "new_order" /\ last_send.order.id = req[r].order_id
        /\ conn[c].role = "waiter" /\ conn[c].client_id = last_send.order.client_id
        /\ Count(received[c], last_send.eid) = 1
        /\ conn[d].role = "waiter" /\ conn[d].state = "open" /\ Seen(d) = {}
        /\ conn[d].client_id # conn[c].client_id /\ conn[d].joined = 0

\* C9: a channel holds only events of group_send calls made after it joined its group.
C9_NoBacklog ==
    \A c \in Conns : \A msg \in Seen(c) : msg.eid > conn[c].joined

\* C9 witness: a waiter panel joined the group after a new_order had been sent to it
\* and holds nothing, while a panel that had joined before holds the event.
C9_Witness ==
    \E c, d \in Conns :
        /\ conn[c].state = "open" /\ conn[d].state = "open"
        /\ last_send.eid = 1
        /\ last_send.group = GroupName(conn[c].role, conn[c].client_id)
        /\ last_send.group = GroupName(conn[d].role, conn[d].client_id)
        /\ conn[c].joined = 1 /\ Seen(c) = {}
        /\ conn[d].joined = 0 /\ Copies(d, 1) = 1

(***************************************************************************)
(* Creation and validation.                                                *)
(***************************************************************************)
\* C11 as stated: once a place-order has returned, whatever it answered, either the
\* order row and a row for every submitted line are in the store, or no row of the
\* order is.
C11_CreateAllOrNothing ==
    \A r \in Slots :
        (req[r].op = "create_order" /\ req[r].pc = "done") =>
            \/ req[r].order_id \notin OrderIds
            \/ Len(order_items[req[r].order_id]) = req[r].submitted

\* C12 as stated: every stored order line has a quantity of at least 1 and a price and
\* a tax that are not negative.
C12_ItemsValidated ==
    \A id \in OrderIds : \A i \in 1..Len(order_items[id]) :
        /\ order_items[id][i].quantity >= 1
        /\ order_items[id][i].price >= 0
        /\ order_items[id][i].tax >= 0

\* C13 as stated: the status of every order is one of STATUS_CHOICES.
C13_StatusInChoices ==
    \A id \in OrderIds : orders[id].status \in STATUS_CHOICES

\* C14 as stated: waiter_name leaves null only by the save of an accept-order on that
\* order, and once it is set no step changes it.
C14_WaiterNameSetOnce ==
    [][\A id \in OrderIds :
          /\ orders[id].waiter_name # NullName =>
                 orders'[id].waiter_name = orders[id].waiter_name
          /\ (orders[id].waiter_name = NullName /\ orders'[id].waiter_name # NullName) =>
                 \E r \in Slots : Saves(r, "accept_order") /\ req[r].order_id = id
      ]_vars

\* C15: a cancel-order that reads an order whose status is completed returns
\* InvalidTransition and writes nothing, whatever other calls are in flight; the call
\* reads the store once and never writes, so concurrent calls on a completed order are
\* such steps one after the other, in either order, and each leaves every row as it was.
C15_CancelCompletedRejected ==
    [][\A r \in Slots :
          (Starts(r, "cancel_order") /\ req'[r].order_id \in OrderIds
             /\ orders[req'[r].order_id].status = "completed") =>
              /\ Rejected(r, "InvalidTransition")
              /\ orders'[req'[r].order_id].status = "completed"
      ]_vars

\* C15 witness: while another handler is in flight, a cancel-order of the completed
\* order has been turned down and the order is still completed.
C15_Witness ==
    /\ req[2].op = "cancel_order" /\ req[2].pc = "done"
    /\ req[2].response = "InvalidTransition"
    /\ orders[req[2].order_id].status = "completed"
    /\ ~IsFree(1)

(***************************************************************************)
(* Tenants.                                                                *)
(***************************************************************************)
\* C16 as stated: place-order for a tenant whose is_active flag is false is rejected
\* and leaves the store unchanged, so no order of such a tenant is ever in the store.
C16_InactiveTenantRejected ==
    \A id \in OrderIds :
        orders[id].client_id \in DOMAIN CompanyInfo =>
            CompanyInfo[orders[id].client_id].is_active

\* C17 as stated, with a tenant id counting as validated when it was checked to name an
\* active tenant: a connected panel is in a group of such a tenant only, and a
\* place-order publishes to the waiter group of such a tenant only.
C17_GroupsOfValidatedTenants ==
    /\ \A c \in Conns :
           conn[c].state = "open" =>
               /\ conn[c].client_id \in DOMAIN CompanyInfo
               /\ CompanyInfo[conn[c].client_id].is_active
    /\ last_send.eid > 0 =>
           /\ last_send.order.client_id \in DOMAIN CompanyInfo
           /\ CompanyInfo[last_send.order.client_id].is_active

\* C18: what a channel has written to its socket followed by what is still queued for
\* it is in the order of the group_send calls: a channel that gets two events of its
\* group gets the one published first before the other.
C18_FifoPerGroup ==
    \A c \in Conns :
        LET all == received[c] \o inbox[c]
        IN  \A i, j \in 1..Len(all) : i < j => all[i].eid < all[j].eid

\* C18 witness: a waiter panel has written two events of its group to its socket, the
\* one published first ahead of the other.
C18_Witness ==
    \E c \in Conns :
        /\ Len(received[c]) = 2
        /\ received[c][1].eid = 1 /\ received[c][2].eid = 2
        /\ received[c][1].order.id # received[c][2].order.id

\* The views that look one order up by its id.
LookupOps == {"accept_order", "update_order_status", "cancel_order", "get_order_detail"}

\* C19 (as amended): accept-order with a name that is not blank once stripped,
\* advance-status with a status given, cancel-order and get, on an order id that is not
\* in the store, return NotFound, change no row and publish nothing.
C19_AbsentOrderNotFound ==
    [][\A r \in Slots :
          (/\ \E op \in LookupOps : Starts(r, op)
           /\ req'[r].order_id \notin OrderIds
           /\ req'[r].op = "accept_order" => Strip(req'[r].waiter_name) # Blank
           /\ req'[r].op = "update_order_status" => req'[r].new_status # None) =>
              /\ Rejected(r, "NotFound")
              /\ last_send' = last_send /\ inbox' = inbox
      ]_vars

\* C19 witness: with an order in the store, an accept-order under a waiter's name on
\* an id that is not in the store has returned NotFound.
C19_Witness ==
    \E r \in Slots :
        /\ req[r].op = "accept_order" /\ req[r].pc = "done"
        /\ req[r].response = "NotFound" /\ req[r].waiter_name = Rajan
        /\ orders # <<>> /\ req[r].order_id \notin OrderIds

\* C19 as stated: the four calls on an order id that is not in the store return
\* NotFound, whatever else the request carries.
C19_AsStated ==
    [][\A r \in Slots :
          (/\ \E op \in LookupOps : Starts(r, op)
           /\ req'[r].order_id \notin OrderIds) =>
              /\ Rejected(r, "NotFound")
              /\ last_send' = last_send /\ inbox' = inbox
      ]_vars

\* C20: client_id and username of every order are set (a place-order without one of
\* them stores nothing), and no step changes them on a stored order.
C20_TenantAndUserFixed ==
    /\ [](\A id \in OrderIds : orders[id].client_id # None /\ orders[id].username # None)
    /\ [][/\ \A id \in OrderIds :
                /\ id \in 1..Len(orders')
                /\ orders'[id].client_id = orders[id].client_id
                /\ orders'[id].username = orders[id].username
          /\ \A r \in Slots :
                (Starts(r, "create_order")
                   /\ (req'[r].response = "ValidationError")) => orders' = orders
         ]_vars

\* C20 witness: an order that was accepted and then moved on by advance-status still
\* carries the client_id and username it was placed with, and a place-order without a
\* username has been turned down.
C20_Witness ==
    /\ \E id \in OrderIds :
           /\ orders[id].status = "completed" /\ orders[id].waiter_name = Rajan
           /\ orders[id].client_id = "A" /\ orders[id].username = "u1"
    /\ \E r \in Slots :
           /\ req[r].op = "create_order" /\ req[r].pc = "done"
           /\ req[r].response = "ValidationError"

(***************************************************************************)
(* Reads.                                                                  *)
(***************************************************************************)
\* The orders of an account, and those of them in a status.
OrdersOf(client_id, username) ==
    {id \in OrderIds : orders[id].client_id = client_id /\ orders[id].username = username}

InStatus(ids, st) == {id \in ids : orders[id].status = st}

RECURSIVE Revenue(_)
Revenue(ids) ==
    IF ids = {} THEN 0
    ELSE LET id == CHOOSE x \in ids : TRUE
         IN  orders[id].total_amount + Revenue(ids \ {id})

\* What the k-th figure of order-stats should be for an account, from the store as
\* it is.
Expected(k, client_id, username) ==
    LET mine == OrdersOf(client_id, username)
    IN  IF k = 1 THEN Cardinality(mine)
        ELSE IF k <= 6 THEN Cardinality(InStatus(mine, StatsStatuses[k - 1]))
        ELSE Revenue(InStatus(mine, "completed"))

\* C21: order-stats without client_id or username is turned down; otherwise each figure
\* it reads (each by a query of its own) is, at the moment it is read, the number of
\* orders of that client_id and username, the number of them in the status, or the sum
\* of total_amount over those of them that are completed (0 when there is none), and
\* the response carries these seven figures; no other order counts.
C21_StatsFigures ==
    [][\A r \in Slots :
          /\ Starts(r, "get_order_stats") =>
                 IF req'[r].query[1] = None \/ req'[r].query[2] = None
                 THEN Rejected(r, "ValidationError") /\ req'[r].out = <<>>
                 ELSE /\ req'[r].pc = "count"
                      /\ req'[r].out = <<Expected(1, req'[r].query[1], req'[r].query[2])>>
          /\ (req[r].op = "get_order_stats" /\ req[r].pc = "count" /\ req'[r] # req[r]) =>
                 /\ Len(req'[r].out) = Len(req[r].out) + 1
                 /\ SubSeq(req'[r].out, 1, Len(req[r].out)) = req[r].out
                 /\ req'[r].out[Len(req'[r].out)] =
                        Expected(Len(req'[r].out), req[r].query[1], req[r].query[2])
                 /\ req'[r].pc = "done" <=> Len(req'[r].out) = 7
                 /\ req'[r].pc = "done" => req'[r].response = "success"
                 /\ orders' = orders
      ]_vars

\* C21 witness: order-stats for A/u1 has returned one order, completed, with the
\* revenue of that order (210.00), while a completed order of another account is in
\* the store.
C21_Witness ==
    \E r \in Slots :
        /\ req[r].op = "get_order_stats" /\ req[r].pc = "done"
        /\ req[r].query = <<"A", "u1">>
        /\ req[r].out = <<1, 0, 0, 0, 1, 0, Decimal(210)>>
        /\ \E id \in OrderIds : /\ orders[id].status = "completed"
                                /\ orders[id].client_id = "A" /\ orders[id].username = "u2"

\* C22: a list-orders call with a client_id returns each order that matches the
\* client_id and, when given, the username and the status, once, as the store holds it
\* at that moment, and nothing else; a later created order comes before an earlier one.
C22_ListExactAndNewestFirst ==
    [][\A r \in Slots :
          (Starts(r, "get_orders") /\ req'[r].query[1] # None) =>
              LET out == req'[r].out
                  q   == req'[r].query
              IN  /\ req'[r].response = "success"
                  /\ {out[i].id : i \in 1..Len(out)} =
                         {id \in OrderIds :
                             /\ orders[id].client_id = q[1]
                             /\ q[2] = None \/ orders[id].username = q[2]
                             /\ q[3] = None \/ orders[id].status = q[3]}
                  /\ \A i, j \in 1..Len(out) :
                         i < j => /\ out[i].id # out[j].id
                                  /\ out[i].created_at >= out[j].created_at
                  /\ \A i \in 1..Len(out) :
                         /\ out[i].created_at = orders[out[i].id].created_at
                         /\ out[i].status = orders[out[i].id].status
                         /\ out[i].username = orders[out[i].id].username
      ]_vars

\* C22 witness: a listing for client A narrowed to status pending has returned its two
\* pending orders, the later one first.
C22_Witness ==
    \E r \in Slots :
        /\ req[r].op = "get_orders" /\ req[r].pc = "done"
        /\ req[r].query = <<"A", None, "pending">>
        /\ Len(req[r].out) = 2
        /\ req[r].out[1].created_at = 2 /\ req[r].out[2].created_at = 1

\* C23: each line a get on an order shows is a line of the order as the store holds
\* it, with item_total = price * quantity, tax_amount = item_total * tax / 100 and
\* item_total_with_tax = item_total + tax_amount (amounts in hundredths); a line of
\* price 100, quantity 2 and tax 5 shows 200, 10 and 210.
C23_ItemFigures ==
    [][\A r \in Slots :
          (Starts(r, "get_order_detail") /\ req'[r].response = "success") =>
              LET id    == req'[r].order_id
                  shown == req'[r].out[1].order_items
              IN  /\ Len(shown) = Len(order_items[id])
                  /\ \A i \in 1..Len(shown) :
                         /\ shown[i].price = order_items[id][i].price
                         /\ shown[i].quantity = order_items[id][i].quantity
                         /\ shown[i].tax = order_items[id][i].tax
                         /\ shown[i].item_total = 100 * shown[i].price * shown[i].quantity
                         /\ 100 * shown[i].tax_amount = shown[i].item_total * shown[i].tax
                         /\ shown[i].item_total_with_tax =
                                shown[i].item_total + shown[i].tax_amount
                         /\ (shown[i].price = 100 /\ shown[i].quantity = 2
                               /\ shown[i].tax = 5) =>
                                /\ shown[i].item_total = 20000
                                /\ shown[i].tax_amount = 1000
                                /\ shown[i].item_total_with_tax = 21000
      ]_vars

\* C23 witness: a get on an order with the line of price 100, quantity 2 and tax 5 has
\* returned it with the figures 200.00, 10.00 and 210.00.
C23_Witness ==
    \E r \in Slots :
        /\ req[r].op = "get_order_detail" /\ req[r].pc = "done"
        /\ req[r].response = "success"
        /\ Len(req[r].out[1].order_items) = 1
        /\ req[r].out[1].order_items[1].price = 100
        /\ req[r].out[1].order_items[1].quantity = 2
        /\ req[r].out[1].order_items[1].tax = 5
        /\ req[r].out[1].order_items[1].item_total = 20000
        /\ req[r].out[1].order_items[1].tax_amount = 1000
        /\ req[r].out[1].order_items[1].item_total_with_tax = 21000

(***************************************************************************)
(* Writes and their notification.                                          *)
(***************************************************************************)
\* C24: a handler reaches its notification block only by the step that completes its
\* write: for place-order the order row and a row for every submitted line are in the
\* store, for accept-order its save has written status preparing and the waiter's
\* name; that step publishes nothing, and every event that is published is published
\* by a handler that has gone through it, for the order it wrote.
C24_CommitBeforeNotify ==
    [][/\ \A r \in Slots :
             /\ (req'[r].pc = "fetch" /\ req[r].pc # "fetch") =>
                    /\ last_send' = last_send /\ inbox' = inbox
                    /\ req'[r].order_id \in 1..Len(orders')
                    /\ req'[r].op = "create_order" =>
                           Len(order_items'[req'[r].order_id]) = req'[r].submitted
                    /\ req'[r].op = "accept_order" =>
                           /\ Saves(r, "accept_order")
                           /\ orders'[req'[r].order_id].status = "preparing"
                           /\ orders'[req'[r].order_id].waiter_name =
                                  Strip(req[r].waiter_name)
             /\ (req'[r].pc = "send" /\ req[r].pc # "send") =>
                    /\ req[r].pc = "fetch"
                    /\ req'[r].op = req[r].op /\ req'[r].order_id = req[r].order_id
       /\ (last_send' # last_send \/ \E c \in Conns : Len(inbox'[c]) > Len(inbox[c])) =>
              \E r \in Slots :
                  /\ req[r].pc = "send" /\ req'[r].pc = "done"
                  /\ req[r].op \in {"create_order", "accept_order"}
                  /\ last_send'.order.id = req[r].order_id
                  /\ req[r].order_id \in OrderIds
                  /\ req[r].op = "create_order" =>
                         Len(order_items[req[r].order_id]) = req[r].submitted
                  /\ req[r].op = "accept_order" =>
                         /\ req[r].order.status = "preparing"
                         /\ req[r].order.waiter_name = Strip(req[r].waiter_name)
      ]_vars

\* C24 witness: an accept-order has published its order_accepted event, and the store
\* holds the order as preparing under the waiter's name the event carries.
C24_Witness ==
    \E r \in Slots :
        /\ req[r].op = "accept_order" /\ req[r].pc = "done" /\ req[r].notify = "sent"
        /\ last_send.type = "order_accepted" /\ last_send.order.id = req[r].order_id
        /\ orders[req[r].order_id].status = "preparing"
        /\ orders[req[r].order_id].waiter_name = last_send.order.waiter_name
        /\ Len(order_items[req[r].order_id]) = 2

\* C25 as stated: the save of a cancel-order or an advance-status is an atomic
\* read-modify-write: it changes the status of the row as the store holds it at that
\* moment, and writes back nothing that was read earlier.
C25_AtomicReadModifyWrite ==
    [][\A r \in Slots :
          /\ Saves(r, "cancel_order") =>
                 orders'[req[r].order_id] =
                     [orders[req[r].order_id] EXCEPT !.status = "cancelled"]
          /\ Saves(r, "update_order_status") =>
                 orders'[req[r].order_id] =
                     [orders[req[r].order_id] EXCEPT !.status = req[r].new_status]
      ]_vars

\* C26 as stated: a row changes only by the save of an accept-order, an advance-status
\* or a cancel-order on it; the save of an accept-order changes status and waiter_name
\* only, the save of an advance-status or a cancel-order changes status only, and the
\* columns written at creation (here client_id, username, total_amount, created_at)
\* never change.
C26_FrameEffect ==
    [][\A id \in OrderIds :
          /\ orders'[id].client_id = orders[id].client_id
          /\ orders'[id].username = orders[id].username
          /\ orders'[id].total_amount = orders[id].total_amount
          /\ orders'[id].created_at = orders[id].created_at
          /\ orders'[id].status # orders[id].status =>
                 \E r \in Slots :
                     /\ req[r].order_id = id
                     /\ \E op \in {"accept_order", "update_order_status", "cancel_order"} :
                            Saves(r, op)
          /\ orders'[id].waiter_name # orders[id].waiter_name =>
                 \E r \in Slots : req[r].order_id = id /\ Saves(r, "accept_order")
      ]_vars

\* C27: item rows are written by place-order only, each appended to the lines of the
\* order that call is placing; no step removes or changes a stored line, no other call
\* touches the lines, and every line belongs to an order that is in the store.
C27_ItemsFixed ==
    /\ [](Len(order_items) = Len(orders))
    /\ [][/\ \A id \in OrderIds :
                /\ Len(order_items'[id]) >= Len(order_items[id])
                /\ SubSeq(order_items'[id], 1, Len(order_items[id])) = order_items[id]
                /\ order_items'[id] # order_items[id] =>
                       \E r \in Slots :
                           /\ req[r].op = "create_order" /\ req[r].pc = "items"
                           /\ req[r].order_id = id
                           /\ Len(order_items'[id]) = Len(order_items[id]) + 1
          /\ \A r \in Slots :
                (req'[r].op \in {"accept_order", "update_order_status", "cancel_order"}
                   /\ req'[r] # req[r]) => order_items' = order_items
          /\ \A id \in 1..Len(orders') :
                id \notin OrderIds =>
                    /\ order_items'[id] = <<>>
                    /\ \E r \in Slots : Starts(r, "create_order") /\ req'[r].order_id = id
         ]_vars

\* C27 witness: an order placed with two lines has been accepted and then cancelled,
\* and it still has its two lines.
C27_Witness ==
    \E id \in OrderIds :
        /\ orders[id].status = "cancelled" /\ orders[id].waiter_name # NullName
        /\ Len(order_items[id]) = 2
        /\ \E r \in Slots : req[r].op = "cancel_order" /\ req[r].pc = "done"
                            /\ req[r].response = "success"

(***************************************************************************)
(* Connections.                                                            *)
(***************************************************************************)
\* The groups a channel is in.
GroupsOf(c) == {g \in GroupNames : c \in groups[g]}

\* C28 as stated: a connected channel is in the group of its role and client_id and
\* in no other, a channel whose connection has ended (or was never set up) is in no
\* group, and nothing more is written to the socket of a connection that has ended.
C28_MembershipFollowsLifecycle ==
    /\ [](\A c \in Conns :
             IF conn[c].state = "open"
             THEN GroupsOf(c) = {GroupName(conn[c].role, conn[c].client_id)}
             ELSE GroupsOf(c) = {})
    /\ [][\A c \in Conns : conn[c].state # "open" => received'[c] = received[c]]_vars

\* C29: a frame that a client sends on a waiter or kitchen connection changes no order
\* and no order line, no group membership, and puts no event on any channel or socket.
C29_InboundChangesNothing ==
    [][\A c \in Conns :
          conn'[c].heard > conn[c].heard =>
              /\ orders' = orders /\ order_items' = order_items
              /\ groups' = groups
              /\ inbox' = inbox /\ received' = received /\ last_send' = last_send
              /\ req' = req
              /\ \A d \in Conns : d # c => conn'[d] = conn[d]
      ]_vars

\* C29 witness: a panel that has sent a frame is still connected and in its group, and
\* the event published after the panel joined has reached it once.
C29_Witness ==
    \E c \in Conns :
        /\ conn[c].state = "open" /\ conn[c].heard >= 1
        /\ GroupsOf(c) = {GroupName(conn[c].role, conn[c].client_id)}
        /\ last_send.eid = 1 /\ conn[c].joined = 0
        /\ Count(received[c], 1) = 1

\* C30: a channel that holds a new_order is a waiter channel and one that holds an
\* order_accepted is a kitchen channel, nothing else is ever held; the frame a consumer
\* writes to its socket has the type and the order of the message it took from its
\* channel, and what a channel holds of the latest group_send is the payload that was
\* published.
C30_RoleRouting ==
    /\ [](\A c \in Conns : \A msg \in Seen(c) :
             /\ msg.type \in {"new_order", "order_accepted"}
             /\ msg.type = "new_order" => conn[c].role = "waiter"
             /\ msg.type = "order_accepted" => conn[c].role = "kitchen"
             /\ msg.eid = last_send.eid =>
                    msg.type = last_send.type /\ msg.order = last_send.order)
    /\ [][\A c \in Conns :
             received'[c] # received[c] =>
                 /\ inbox[c] # <<>> /\ inbox'[c] = Tail(inbox[c])
                 /\ Len(received'[c]) = Len(received[c]) + 1
                 /\ SubSeq(received'[c], 1, Len(received[c])) = received[c]
                 /\ received'[c][Len(received'[c])].type = Head(inbox[c]).type
                 /\ received'[c][Len(received'[c])].order = Head(inbox[c]).order
         ]_vars

\* C30 witness: a waiter panel has the new_order of an order on its socket and a
\* kitchen panel of the same tenant has the order_accepted of that order on its socket.
C30_Witness ==
    \E c, d \in Conns :
        /\ conn[c].role = "waiter" /\ conn[d].role = "kitchen"
        /\ Len(received[c]) = 1 /\ received[c][1].type = "new_order"
        /\ Len(received[d]) = 1 /\ received[d][1].type = "order_accepted"
        /\ received[d][1].order = last_send.order
        /\ received[c][1].order.id = received[d][1].order.id
        /\ received[c][1].order.status = "pending"
        /\ received[d][1].order.status = "preparing"

(***************************************************************************)
(* Delivery.                                                               *)
(***************************************************************************)
\* The copies of group_send call eid that channel c holds after the step.
CopiesNext(c, eid) == Count(inbox'[c], eid) + Count(received'[c], eid)

\* Channel c loses its connection or a message in this step without writing it out.
Fails(c) ==
    /\ conn[c].state = "open"
    /\ received'[c] = received[c]
    /\ conn'[c].state = "closed" \/ Len(inbox'[c]) < Len(inbox[c])

\* C31: a step in which a channel fails to write an event out, or its connection ends
\* with events still queued, changes no order and no order line, and nothing of any
\* other channel: what the others hold, their connection and their group membership;
\* a channel loses a copy of an event only by a failure of its own; and a connected
\* channel with an event queued can always write it out, whatever has become of the
\* other members of its group.
C31_IndependentDelivery ==
    /\ [][\A c \in Conns :
             /\ Fails(c) =>
                    /\ orders' = orders /\ order_items' = order_items
                    /\ \A d \in Conns \ {c} :
                           /\ inbox'[d] = inbox[d] /\ received'[d] = received[d]
                           /\ conn'[d] = conn[d]
                    /\ \A g \in GroupNames : groups'[g] \ {c} = groups[g] \ {c}
             /\ \A eid \in 1..last_send.eid :
                    CopiesNext(c, eid) < Copies(c, eid) =>
                        /\ Fails(c)
                        /\ inbox[c] # <<>> /\ Head(inbox[c]).eid = eid
                        /\ inbox'[c] = Tail(inbox[c])
         ]_vars
    /\ [](\A d \in Conns :
             (conn[d].state = "open" /\ inbox[d] # <<>>) => ENABLED Deliver(d))

\* C31 witness: an order_accepted went to a kitchen group of two channels; the socket
\* of one failed and its consumer ended without the event, the other has the event on
\* its socket, and the order is in the store as the accept committed it.
C31_Witness ==
    \E c, d \in Conns :
        /\ c # d /\ {c, d} \subseteq last_send.members
        /\ last_send.type = "order_accepted"
        /\ conn[c].state = "closed" /\ c \in groups[last_send.group]
        /\ Copies(c, last_send.eid) = 0
        /\ conn[d].state = "open" /\ Count(received[d], last_send.eid) = 1
        /\ orders[last_send.order.id].status = "preparing"
        /\ orders[last_send.order.id].waiter_name = Rajan

\* The groups a channel is in after the step.
GroupsOfNext(c) == {g \in GroupNames : c \in groups'[g]}

\* C32: a group_send that goes through leaves the membership as it was and puts exactly
\* one copy on the queue of every channel that is in the group at that moment, and
\* none elsewhere; the membership of a channel changes only by its own join (into the
\* group of its role and tenant) or its own leave (out of every group), so joins and
\* leaves of other channels, whenever they come, never take a channel out of its group
\* or put it into one; and no later step repeats or removes a copy a channel holds.
C32_MembershipNotCorrupted ==
    [][/\ \A r \in Slots :
             (req[r].pc = "send" /\ req'[r].pc = "done" /\ req'[r].notify = "sent") =>
                 /\ groups' = groups
                 /\ last_send'.eid = last_send.eid + 1
                 /\ last_send'.members = groups[last_send'.group]
                 /\ \A c \in Conns :
                        /\ Count(inbox'[c], last_send'.eid) =
                               IF c \in groups[last_send'.group] THEN 1 ELSE 0
                        /\ Count(received'[c], last_send'.eid) = 0
       /\ \A c \in Conns :
             /\ GroupsOfNext(c) # GroupsOf(c) =>
                    \/ /\ conn[c].state = "new" /\ conn'[c].state = "open"
                       /\ GroupsOfNext(c) = {GroupName(conn'[c].role, conn'[c].client_id)}
                    \/ /\ conn[c].state = "open" /\ conn'[c].state = "closed"
                       /\ GroupsOfNext(c) = {}
             /\ \A eid \in 1..last_send.eid : CopiesNext(c, eid) = Copies(c, eid)
      ]_vars

\* C32 witness: two panels had joined the waiter group of a tenant; one of them left
\* before the new_order of the tenant was published, and the one that stayed has the
\* event once while the one that left has nothing.
C32_Witness ==
    \E c, d \in Conns :
        /\ c # d /\ conn[c].role = conn[d].role /\ conn[c].client_id = conn[d].client_id
        /\ conn[c].state = "open" /\ conn[d].state = "closed"
        /\ conn[c].joined = 0 /\ conn[d].joined = 0
        /\ last_send.eid = 1 /\ last_send.members = {c}
        /\ Copies(c, 1) = 1 /\ Copies(d, 1) = 0

(***************************************************************************)
(* The notification step.                                                  *)
(***************************************************************************)
\* C33: a handler comes to its group_send once, from its re-read, which it comes to
\* once, from its own write; it makes one group_send call and returns, whether the call
\* goes through or raises: a call that raises queues nothing anywhere, and the handler
\* does not come back to it; every event is queued by such a call, a new_order by a
\* place-order and an order_accepted by an accept-order, for the order of that call;
\* so no channel holds two new_order events for one order, and nobody ever holds the
\* event of a call that raised.
C33_PublishOnceNoRetry ==
    /\ [][/\ \A r \in Slots :
                /\ (req[r].pc = "send" /\ req'[r] # req[r]) =>
                       /\ req'[r].pc = "done"
                       /\ req'[r].notify \in {"sent", "failed"}
                /\ (req[r].pc = "send" /\ req'[r].notify = "failed") =>
                       inbox' = inbox /\ received' = received /\ last_send' = last_send
                /\ (req[r].pc = "send" /\ req'[r].notify = "sent") =>
                       /\ last_send'.eid = last_send.eid + 1
                       /\ last_send'.type = EventType(req[r].op)
                       /\ last_send'.order.id = req[r].order_id
                /\ (req'[r].pc = "send" /\ req[r].pc # "send") =>
                       /\ req[r].pc = "fetch"
                       /\ req'[r].op = req[r].op /\ req'[r].order_id = req[r].order_id
                /\ (req'[r].pc = "fetch" /\ req[r].pc # "fetch") =>
                       \/ Saves(r, "accept_order")
                       \/ /\ req'[r].op = "create_order"
                          /\ Starts(r, "create_order") \/ req[r].pc = "items"
                          /\ Len(order_items'[req'[r].order_id]) = req'[r].submitted
          /\ (last_send' # last_send \/ \E c \in Conns : Len(inbox'[c]) > Len(inbox[c])) =>
                 \E r \in Slots : req[r].pc = "send" /\ req'[r].notify = "sent"
         ]_vars
    /\ [](/\ \A c \in Conns : \A m1, m2 \in Seen(c) :
                 (m1.type = "new_order" /\ m2.type = "new_order"
                    /\ m1.order.id = m2.order.id) => m1.eid = m2.eid
          /\ \A c \in Conns : \A msg \in Seen(c) :
                 ValidGroupName(GroupName(conn[c].role, msg.order.client_id)))

\* C33 witness: two orders were placed; the group_send for the first raised and the
\* one for the second went through, so one event was published in all, a waiter panel
\* has it, and nobody holds anything about the first order.
C33_Witness ==
    /\ Len(orders) = 2 /\ ~ValidGroupName(GroupName("waiter", orders[1].client_id))
    /\ last_send.eid = 1 /\ last_send.order.id = 2 /\ last_send.type = "new_order"
    /\ \E c \in Conns : Count(received[c], 1) = 1
    /\ \A c \in Conns : \A msg \in Seen(c) : msg.order.id # 1
    /\ \A r \in Serial : req[r].pc = "done" /\ req[r].notify = "sent"

\* C34: a place-order or accept-order that has made its write and stands before its
\* re-read or its group_send can always take that step, however many channels are in
\* the group, however much they have left unread and whether or not the call raises;
\* and it goes on to return its success response.
C34_NotifyDoesNotBlock ==
    /\ [](\A r \in Serial :
             /\ req[r].pc = "fetch" => ENABLED Refetch(r)
             /\ req[r].pc = "send" => ENABLED Publish(r))
    /\ \A r \in Serial :
           (req[r].pc \in {"fetch", "send"}) ~>
               (req[r].pc = "done" /\ req[r].response = "success")

\* C34 witness: an accept-order has returned success after publishing to a kitchen
\* group of two panels, neither of which has read anything: each has two events queued.
C34_Witness ==
    \E r \in Serial, c, d \in Conns :
        /\ req[r].op = "accept_order" /\ req[r].pc = "done"
        /\ req[r].response = "success" /\ req[r].notify = "sent"
        /\ c # d /\ last_send.members = {c, d}
        /\ Len(inbox[c]) = 1 /\ received[c] = <<>>
        /\ Len(inbox[d]) = 1 /\ received[d] = <<>>
        /\ last_send.eid = 2

(***************************************************************************)
(* advance-status.                                                         *)
(***************************************************************************)
\* C35: advance-status with any of the five statuses on an order whose status is
\* pending, preparing or ready passes (no check is made of the move) and changes
\* nothing before its save; its save sets the status to exactly the status asked for
\* and the call returns success.
C35_AdvancePermissive ==
    [][\A r \in Slots :
          /\ (/\ Starts(r, "update_order_status")
              /\ req'[r].order_id \in OrderIds
              /\ req'[r].new_status \in STATUS_CHOICES
              /\ orders[req'[r].order_id].status \in {"pending", "preparing", "ready"}) =>
                 /\ req'[r].pc = "save"
                 /\ orders' = orders
          /\ Saves(r, "update_order_status") =>
                 /\ orders'[req[r].order_id].status = req[r].new_status
                 /\ \A id \in OrderIds \ {req[r].order_id} : orders'[id] = orders[id]
                 /\ req'[r].pc = "done" /\ req'[r].response = "success"
      ]_vars

\* C35 witness: an order that a waiter had accepted has been moved back to pending by
\* an advance-status that returned success.
C35_Witness ==
    \E r \in Slots, id \in OrderIds :
        /\ req[r].op = "update_order_status" /\ req[r].pc = "done"
        /\ req[r].response = "success" /\ req[r].order_id = id
        /\ req[r].new_status = "pending"
        /\ orders[id].status = "pending" /\ orders[id].waiter_name = Rajan

(***************************************************************************)
(* What a payload shows.                                                   *)
(***************************************************************************)
\* C36 as stated: the payload of every event that is published shows what the call
\* that publishes it committed: status pending and an empty waiter_name in a new_order,
\* status preparing and the name given to that accept-order call in an order_accepted,
\* whatever other calls on the order run between the commit and the re-read.
C36_PayloadShowsCommit ==
    [][\A r \in Slots :
          (req[r].pc = "send" /\ req'[r].notify = "sent") =>
              /\ last_send'.order.id = req[r].order_id
              /\ req[r].op = "create_order" =>
                     /\ last_send'.order.status = "pending"
                     /\ last_send'.order.waiter_name = Blank
              /\ req[r].op = "accept_order" =>
                     /\ last_send'.order.status = "preparing"
                     /\ last_send'.order.waiter_name = Strip(req[r].waiter_name)
      ]_vars

(***************************************************************************)
(* Calls that are turned down.                                             *)
(***************************************************************************)
\* All that is stored and all that is queued or written out stays as it is in the step.
NothingWrittenOrSent ==
    /\ orders' = orders /\ order_items' = order_items
    /\ groups' = groups /\ inbox' = inbox /\ received' = received
    /\ last_send' = last_send

\* C37: a place-order that is turned down returns ValidationError in the step that
\* starts it, and an accept-order with a blank name, on an order id that is not in the
\* store, or on an order that is not pending returns ValidationError, NotFound or
\* InvalidTransition in the step that starts it; that step writes no row and queues no
\* event, and the handler, having returned, takes no further step.
C37_RejectedEmitNothing ==
    [][\A r \in Slots :
          /\ (Starts(r, "create_order") /\ req'[r].pc = "done") =>
                 /\ req'[r].response = "ValidationError"
                 /\ NothingWrittenOrSent
          /\ (Starts(r, "accept_order")
                /\ \/ Strip(req'[r].waiter_name) = Blank
                   \/ req'[r].order_id \notin OrderIds
                   \/ orders[req'[r].order_id].status # "pending") =>
                 /\ req'[r].pc = "done"
                 /\ req'[r].response \in {"ValidationError", "NotFound", "InvalidTransition"}
                 /\ NothingWrittenOrSent
          /\ (req[r].pc = "done" /\ req'[r] # req[r]) => \E op \in {req'[r].op} : Starts(r, op)
      ]_vars

\* C37 witness: an accept-order under a waiter's name on a cancelled order has been
\* turned down; the order is still cancelled with no waiter, and the only event ever
\* published is the new_order of the order.
C37_Witness ==
    \E r \in Slots :
        /\ req[r].op = "accept_order" /\ req[r].pc = "done"
        /\ req[r].response = "InvalidTransition" /\ req[r].waiter_name = Rajan
        /\ orders[req[r].order_id].status = "cancelled"
        /\ orders[req[r].order_id].waiter_name = NullName
        /\ last_send.eid = 1 /\ last_send.type = "new_order"

\* C38: no step of an advance-status or a cancel-order queues an event, writes a frame
\* to a socket or changes a group; whatever is published is published by the
\* group_send of a place-order or an accept-order; and no channel ever holds an event
\* other than a new_order or an order_accepted.
C38_StatusChangesAreSilent ==
    /\ [][/\ \A r \in Slots :
                (req'[r].op \in {"update_order_status", "cancel_order"}
                   /\ req'[r] # req[r]) =>
                    /\ inbox' = inbox /\ received' = received
                    /\ last_send' = last_send /\ groups' = groups
          /\ (last_send' # last_send \/ inbox' # inbox) =>
                 \/ \E r \in Slots : /\ req[r].op \in {"create_order", "accept_order"}
                                      /\ req[r].pc = "send" /\ req'[r].pc = "done"
                 \/ \E c \in Conns : /\ inbox[c] # <<>> /\ inbox'[c] = Tail(inbox[c])
                                      /\ received'[c] = Append(received[c], Head(inbox[c]))
                                      /\ last_send' = last_send
         ]_vars
    /\ [](\A c \in Conns : \A msg \in Seen(c) :
             msg.type \in {"new_order", "order_accepted"})

\* C38 witness: a kitchen panel has the order_accepted of an order on its socket; the
\* order has since been cancelled by a cancel-order that returned success, and the
\* panel holds nothing more than that one frame.
C38_Witness ==
    \E r \in Slots, c \in Conns :
        /\ req[r].op = "cancel_order" /\ req[r].pc = "done" /\ req[r].response = "success"
        /\ orders[req[r].order_id].status = "cancelled"
        /\ orders[req[r].order_id].waiter_name = Rajan
        /\ conn[c].role = "kitchen" /\ conn[c].state = "open"
        /\ Len(received[c]) = 1 /\ inbox[c] = <<>>
        /\ received[c][1].type = "order_accepted"
        /\ received[c][1].order.id = req[r].order_id
        /\ last_send.eid = 2

(***************************************************************************)
(* Invariants of the store and of the figures.                             *)
(***************************************************************************)
\* C39 as stated: an order whose status is preparing, ready or completed has a
\* waiter_name that is neither null nor blank.
C39_KitchenStatusHasWaiter ==
    \A id \in OrderIds :
        orders[id].status \in {"preparing", "ready", "completed"} =>
            /\ orders[id].waiter_name # NullName
            /\ Strip(orders[id].waiter_name) # Blank

\* C40 as stated: in every order-stats response total_orders is the sum of
\* pending_orders, preparing_orders, ready_orders, completed_orders and
\* cancelled_orders.
C40_StatsAddUp ==
    \A r \in Slots :
        (req[r].op = "get_order_stats" /\ req[r].pc = "done"
           /\ req[r].response = "success") =>
            req[r].out[1] =
                req[r].out[2] + req[r].out[3] + req[r].out[4] + req[r].out[5] + req[r].out[6]
====
